---------------------------- MODULE Spec2Model ----------------------------
(***************************************************************************)
(* A model of key262yek/traffic (src/src/lib.rs): cars in one lane, speed  *)
(* cameras, the two flags of each camera, and the loop of test_speedcam    *)
(* that integrates the cars and then lets every flag act on the car that   *)
(* has passed it.                                                          *)
(*                                                                         *)
(* Numbers.  The program computes in f64.  The model computes the same     *)
(* expressions exactly: positions, speeds, sizes and lengths are integers, *)
(* a quotient is kept as a fraction, and the twelfth powers of force_from  *)
(* are computed on naturals of any length (the Big operators).  Rounding,  *)
(* infinities and NaN are outside the model.  tanh is not rational:        *)
(* drift_force returns an interval that contains the exact value.          *)
(***************************************************************************)
EXTENDS Integers, Sequences, FiniteSets, TLC

VARIABLES
    items,  \* the loop's Vec<TrafficItem>
    cams,   \* the SpeedCams the flags of items refer to
    self,   \* the receiver of the call under study
    other,  \* its argument
    ret,    \* what the calls made so far returned
    steps,  \* the increments the time iterator has handed out
    pc      \* which operation has acted

vars == <<items, cams, self, other, ret, steps, pc>>

Abs(x) == IF x < 0 THEN -x ELSE x

Sgn(x) == IF x < 0 THEN -1 ELSE IF x > 0 THEN 1 ELSE 0

\* A quotient a / b of the program, kept exact.
Frac(a, b) == [num |-> a, den |-> b]

\* q * k
FracTimes(q, k) == [num |-> q.num * k, den |-> q.den]

\* the sign of q, for q.den # 0
FracSgn(q) == Sgn(q.num) * Sgn(q.den)

\* p = q, for denominators # 0
FracEq(p, q) == p.num * q.den = q.num * p.den

\* Cartessian1D::zeros()
Zeros == Frac(0, 1)

(***************************************************************************)
(* Car                                                                     *)
(***************************************************************************)

\* Car::new: position and velocity zero, mass one, the rest as given.
\* Nothing is validated.
Car_new(lane, size, max_speed, drift, behavior, own_max_speed) ==
    [pos |-> 0, vel |-> 0, lane |-> lane, size |-> size,
     max_speed |-> max_speed, drift |-> drift, mass |-> 1,
     behavior |-> behavior, own_max_speed |-> own_max_speed]

(***************************************************************************)
(* drift_force and the steps of test_car_acceleration are computed in      *)
(* fixed point: a speed or a gain x of the program is the integer x * FP.  *)
(* tanh is enclosed: for x >= 0, 0.76 * min(x, 1) <= tanh x <= min(x, 1)   *)
(* (tanh is concave on x >= 0, tanh 1 = 0.7615..., tanh x <= x, tanh < 1), *)
(* and tanh is odd.                                                        *)
(***************************************************************************)

FP == 100 * 100

Min(a, b) == IF a < b THEN a ELSE b

\* the least integer >= a / b, for b > 0
CeilDiv(a, b) == -((-a) \div b)

\* an interval that contains FP * tanh(x / FP)
Tanh(x) ==
    IF x >= 0
    THEN [lo |-> (76 * Min(x, FP)) \div 100, hi |-> Min(x, FP)]
    ELSE [lo |-> -Min(-x, FP), hi |-> -((76 * Min(-x, FP)) \div 100)]

\* A plausible slip: the deficit taken the wrong way round.
Car_drift_force_reversed(c) ==
    LET t == Tanh(c.vel - c.max_speed)
    IN  [lo |-> (c.drift * t.lo) \div FP, hi |-> CeilDiv(c.drift * t.hi, FP)]

\* Car::drift_force, for drift >= 0: an interval that contains
\* drift * tanh(max_speed - vel)
Car_drift_force(c) ==
    LET t == Tanh(c.max_speed - c.vel)
    IN  [lo |-> (c.drift * t.lo) \div FP, hi |-> CeilDiv(c.drift * t.hi, FP)]

\* car.euler(&force, dt) and car.renew_state(&movement) with dt = 0.1: the
\* explicit Euler step vel += force / mass * dt, on the lower end of an
\* enclosure of the velocity.  v + dt * drift * tanh(max_speed - v) does not
\* decrease in v while dt * drift <= 1, so the step of the lower end is a
\* lower end of the step.
EulerLo(c) == [c EXCEPT !.vel = c.vel + (Car_drift_force(c).lo \div c.mass) \div 10]

\* the same step on the upper end
EulerHi(c) == [c EXCEPT !.vel = c.vel + CeilDiv(CeilDiv(Car_drift_force(c).hi, c.mass), 10)]

\* A plausible slip: the limit is applied to the current ceiling.
Car_set_max_speed_compound(c, speed_limit) ==
    [c EXCEPT !.max_speed = (1 + c.behavior) * c.max_speed]

\* Car::set_max_speed
Car_set_max_speed(c, speed_limit) ==
    [c EXCEPT !.max_speed = (1 + c.behavior) * speed_limit]

\* Car::safe_distance: size + v * (2 + 0.05 * v) ahead, size behind
Car_safe_distance(c, dir) ==
    LET v == c.vel
    IN  IF dir
        THEN Frac(20 * c.size + v * (40 + v), 20)
        ELSE Frac(c.size, 1)

(***************************************************************************)
(* Naturals of any length, least significant digit first, no leading zero  *)
(* digit (zero is the empty sequence): 12 * t^12 does not fit the 32-bit    *)
(* integers of TLC.                                                        *)
(***************************************************************************)

BigBase == 100 * 100

RECURSIVE BigOfNat(_)
BigOfNat(n) == IF n = 0 THEN <<>> ELSE <<n % BigBase>> \o BigOfNat(n \div BigBase)

RECURSIVE BigTimesCarry(_, _, _)
BigTimesCarry(x, k, carry) ==
    IF x = <<>>
    THEN BigOfNat(carry)
    ELSE LET p == Head(x) * k + carry
         IN  <<p % BigBase>> \o BigTimesCarry(Tail(x), k, p \div BigBase)

\* x * k, for a natural k below 100000
BigTimes(x, k) == IF k = 0 THEN <<>> ELSE BigTimesCarry(x, k, 0)

\* x * k^n
RECURSIVE BigTimesPow(_, _, _)
BigTimesPow(x, k, n) == IF n = 0 THEN x ELSE BigTimesPow(BigTimes(x, k), k, n - 1)

RECURSIVE BigCmpFrom(_, _, _)
BigCmpFrom(x, y, i) ==
    IF i = 0 THEN 0
    ELSE IF x[i] # y[i] THEN Sgn(x[i] - y[i])
    ELSE BigCmpFrom(x, y, i - 1)

\* the sign of x - y
BigCmp(x, y) ==
    IF Len(x) # Len(y) THEN Sgn(Len(x) - Len(y)) ELSE BigCmpFrom(x, y, Len(x))

RECURSIVE BigNorm(_)
BigNorm(x) ==
    IF x # <<>> /\ x[Len(x)] = 0 THEN BigNorm(SubSeq(x, 1, Len(x) - 1)) ELSE x

RECURSIVE BigMinusBorrow(_, _, _)
BigMinusBorrow(x, y, borrow) ==
    IF x = <<>>
    THEN <<>>
    ELSE LET d == Head(x) - (IF y = <<>> THEN 0 ELSE Head(y)) - borrow
         IN  <<IF d < 0 THEN d + BigBase ELSE d>>
                 \o BigMinusBorrow(Tail(x), IF y = <<>> THEN <<>> ELSE Tail(y),
                                   IF d < 0 THEN 1 ELSE 0)

\* x - y, for x >= y
BigMinus(x, y) == BigNorm(BigMinusBorrow(x, y, 0))

\* 12.0 * t.powi(12) - 6.0 * t.powi(6) for t = a / b, b > 0, as
\* sgn * num / den
LennardJones(a, b) ==
    LET twelve == BigTimesPow(BigOfNat(12), Abs(a), 12)
        six == BigTimesPow(BigTimesPow(BigOfNat(6), Abs(a), 6), b, 6)
        s == BigCmp(twelve, six)
    IN  [sgn |-> s,
         num |-> IF s >= 0 THEN BigMinus(twelve, six) ELSE BigMinus(six, twelve),
         den |-> BigTimesPow(BigOfNat(1), b, 12)]

\* A plausible slip: the car ahead pulls instead of pushing.
Car_force_from_pull(c, o) ==
    LET r == Abs(c.pos - o.pos)
        sd == Car_safe_distance(c, c.pos < o.pos)
        lj == LennardJones(sd.num, sd.den * r)
    IN  [sgn |-> lj.sgn, num |-> BigTimes(lj.num, 4), den |-> BigTimes(lj.den, r)]

\* Car::force_from, for cars at distinct positions: -4 / r * (12 t^12 - 6 t^6)
\* when other is ahead, 4 / r * (...) when it is behind, t = safe_distance / r
Car_force_from(c, o) ==
    LET r == Abs(c.pos - o.pos)
    IN  IF c.pos < o.pos
        THEN LET sd == Car_safe_distance(c, TRUE)
                 lj == LennardJones(sd.num, sd.den * r)
             IN  [sgn |-> -lj.sgn, num |-> BigTimes(lj.num, 4),
                  den |-> BigTimes(lj.den, r)]
        ELSE LET sd == Car_safe_distance(c, FALSE)
                 lj == LennardJones(sd.num, sd.den * r)
             IN  [sgn |-> lj.sgn, num |-> BigTimes(lj.num, 4),
                  den |-> BigTimes(lj.den, r)]

(***************************************************************************)
(* SpeedCam and SpeedCamFlag                                               *)
(***************************************************************************)

\* SpeedCam::new.  Nothing is validated.
SpeedCam_new(pos, speed_limit, length, check_average) ==
    [pos |-> pos, speed_limit |-> speed_limit, length |-> length,
     check_average |-> check_average]

\* SpeedCam::set_max_speed
SpeedCam_set_max_speed(cm, c) == Car_set_max_speed(c, cm.speed_limit)

\* The earlier variant the spec warns of: no brake at all.
SpeedCam_force_to_noop(cm, c) == Zeros

\* SpeedCam::force_to
SpeedCam_force_to(cm, c) ==
    IF c.vel < cm.speed_limit
    THEN Zeros
    ELSE FracTimes(Frac(-2, cm.length), c.vel * c.vel)

\* SpeedCamFlag::new.  The flag's reference to its cam is the cam's value: a
\* SpeedCam has no method that changes it.
SpeedCamFlag_new(pos, status, cm) == [pos |-> pos, status |-> status, cam |-> cm]

\* A plausible slip: the entry flag put downstream of the cam.
SpeedCam_flags_downstream(cm) ==
    <<SpeedCamFlag_new(cm.pos + cm.length, TRUE, cm),
      SpeedCamFlag_new(cm.pos, FALSE, cm)>>

\* SpeedCam::flags: (entry, exit)
SpeedCam_flags(cm) ==
    <<SpeedCamFlag_new(cm.pos - cm.length, TRUE, cm),
      SpeedCamFlag_new(cm.pos, FALSE, cm)>>

\* SpeedCamFlag::set_max_speed: the car after the call
SpeedCamFlag_set_max_speed(f, c) ==
    IF f.status
    THEN SpeedCam_set_max_speed(f.cam, c)
    ELSE [c EXCEPT !.max_speed = c.own_max_speed]

\* SpeedCamFlag::pos
SpeedCamFlag_pos(f) == f.pos

(***************************************************************************)
(* SpeedCam::flags called on one cam, twice.                               *)
(***************************************************************************)

MaxCalls == 2

CamPositions == -1 .. 3
CamLengths == -1 .. 3
CamLimits == {0, 5}

FlagsInit ==
    /\ items = <<>>
    /\ cams = {}
    /\ self \in {SpeedCam_new(p, l, n, a) :
                    p \in CamPositions, l \in CamLimits,
                    n \in CamLengths, a \in BOOLEAN}
    /\ other = <<>>
    /\ ret = <<>>
    /\ steps = 0
    /\ pc = "flags"

\* let (open, close) = speedcam.flags();  the cam is borrowed, not changed
CallFlags ==
    /\ pc = "flags"
    /\ Len(ret) < MaxCalls
    /\ ret' = Append(ret, [cam |-> self, flags |-> SpeedCam_flags(self)])
    /\ UNCHANGED <<items, cams, self, other, steps, pc>>

FlagsNext == CallFlags

SpecFlags == FlagsInit /\ [][FlagsNext]_vars

\* C5: every call of flags() returns two markers, the entry flag (status
\* TRUE) at position - length and the exit flag (status FALSE) at position,
\* both referring to the cam; a second call returns an equal pair, the cam
\* is as it was, and for length > 0 the entry flag is strictly upstream of
\* the exit flag.
C5_Flags ==
    /\ \A i \in 1 .. Len(ret) :
          LET entry == ret[i].flags[1]
              exit == ret[i].flags[2]
          IN  /\ Len(ret[i].flags) = 2
              /\ entry.status = TRUE
              /\ entry.pos = ret[i].cam.pos - ret[i].cam.length
              /\ entry.cam = ret[i].cam
              /\ exit.status = FALSE
              /\ exit.pos = ret[i].cam.pos
              /\ exit.cam = ret[i].cam
              /\ ret[i].cam = self
              /\ ret[i].cam.length > 0 => entry.pos < exit.pos
    /\ \A i, j \in 1 .. Len(ret) : ret[i].flags = ret[j].flags

C5_Witness ==
    /\ pc = "flags"
    /\ Len(ret) = 2
    /\ self.length > 0
    /\ ret[2].flags[1].pos < ret[2].flags[2].pos

(***************************************************************************)
(* TrafficItem                                                             *)
(***************************************************************************)

\* enum TrafficItem { Car(Car), Flag(SpeedCamFlag) }
TrafficItem_Car(c) == [tag |-> "Car", val |-> c]

TrafficItem_Flag(f) == [tag |-> "Flag", val |-> f]

\* TrafficItem::pos: the position of whichever variant the item holds
TrafficItem_pos(it) == IF it.tag = "Car" THEN it.val.pos ELSE SpeedCamFlag_pos(it.val)

\* A plausible slip: the other pairings return without doing anything.
TrafficItem_set_max_speed_silent(s, o) ==
    IF s.tag = "Flag" /\ o.tag = "Car"
    THEN [outcome |-> "ok",
          other |-> TrafficItem_Car(SpeedCamFlag_set_max_speed(s.val, o.val))]
    ELSE [outcome |-> "ok", other |-> o]

\* TrafficItem::set_max_speed(&self, other: &mut Self): how the call ends, and
\* other after it.  The arm `_ => unreachable!()` panics before anything is
\* written.
TrafficItem_set_max_speed(s, o) ==
    IF s.tag = "Flag" /\ o.tag = "Car"
    THEN [outcome |-> "ok",
          other |-> TrafficItem_Car(SpeedCamFlag_set_max_speed(s.val, o.val))]
    ELSE [outcome |-> "panic", other |-> o]

(***************************************************************************)
(* The cars and cams the calls below are made on.  The numbers are those   *)
(* of the tests: size 1, drift 1, ceilings 10 and 50, limit 5.             *)
(***************************************************************************)

\* cars[0].pos[0] = 50.0, and what integration leaves: a car somewhere on
\* the lane with some velocity
CarAt(c, p, v) == [c EXCEPT !.pos = p, !.vel = v]

SampleCars ==
    {CarAt(Car_new(0, 1, m, 1, b, 10), p, v) :
        m \in {10, 50}, b \in {0, 1}, p \in {0, 4}, v \in {0, 3}}

SampleCams ==
    {SpeedCam_new(3, l, n, FALSE) : l \in {0, 5}, n \in {1, 2}}

SampleFlags ==
    UNION {{SpeedCam_flags(cm)[1], SpeedCam_flags(cm)[2]} : cm \in SampleCams}

SampleItems ==
    {TrafficItem_Car(c) : c \in {k \in SampleCars : k.pos = 0 /\ k.vel = 0}}
        \cup {TrafficItem_Flag(f) : f \in SampleFlags}

(***************************************************************************)
(* TrafficItem::set_max_speed called on every pairing.                     *)
(***************************************************************************)

ItemInit ==
    /\ items = <<>>
    /\ cams = {}
    /\ self \in SampleItems
    /\ other \in SampleItems
    /\ ret = <<>>
    /\ steps = 0
    /\ pc = "item"

\* self.set_max_speed(&mut other), once
CallItemSetMaxSpeed ==
    /\ pc = "item"
    /\ ret = <<>>
    /\ ret' = <<TrafficItem_set_max_speed(self, other)>>
    /\ UNCHANGED <<items, cams, self, other, steps, pc>>

ItemNext == CallItemSetMaxSpeed

SpecItem == ItemInit /\ [][ItemNext]_vars

\* C2: TrafficItem::set_max_speed panics on every pairing other than
\* (Flag, Car) and leaves other as it was; only (Flag, Car) returns.
C2_VariantSafety ==
    \A i \in 1 .. Len(ret) :
        /\ ret[i].outcome \in {"ok", "panic"}
        /\ ret[i].outcome = "ok" <=> (self.tag = "Flag" /\ other.tag = "Car")
        /\ ret[i].outcome = "panic" => ret[i].other = other

C2_Witness ==
    /\ pc = "item"
    /\ Len(ret) = 1
    /\ self.tag = "Flag"
    /\ other.tag = "Flag"
    /\ ret[1].outcome = "panic"

(***************************************************************************)
(* SpeedCamFlag::set_max_speed called on one car, repeatedly.              *)
(***************************************************************************)

FlagInit ==
    /\ items = <<>>
    /\ cams = {}
    /\ self \in SampleFlags
    /\ other \in SampleCars
    /\ ret = <<>>
    /\ steps = 0
    /\ pc = "flag"

\* f.set_max_speed(&mut c) on the car the previous call left
CallFlagSetMaxSpeed ==
    /\ pc = "flag"
    /\ Len(ret) < MaxCalls
    /\ LET c == IF ret = <<>> THEN other ELSE ret[Len(ret)].car
       IN  ret' = Append(ret, [flag |-> self,
                               car |-> SpeedCamFlag_set_max_speed(self, c)])
    /\ UNCHANGED <<items, cams, self, other, steps, pc>>

FlagNext == CallFlagSetMaxSpeed

SpecFlag == FlagInit /\ [][FlagNext]_vars

\* C9: a flag transition, of either status, changes nothing of the car but
\* max_speed and nothing of the flag or its cam; applying the flag again
\* leaves the car as the first application left it.
C9_Frame ==
    /\ \A i \in 1 .. Len(ret) :
          /\ ret[i].car = [other EXCEPT !.max_speed = ret[i].car.max_speed]
          /\ ret[i].flag = self
    /\ \A i, j \in 1 .. Len(ret) : ret[i].car = ret[j].car

C9_Witness ==
    /\ pc = "flag"
    /\ Len(ret) = 2
    /\ self.status
    /\ other.max_speed # ret[1].car.max_speed
    /\ other.pos = 4
    /\ ret[2].car.pos = 4

(***************************************************************************)
(* SpeedCam::force_to called on one car.  A length of zero makes the       *)
(* program divide by zero (an infinity or NaN); the lengths drawn here are *)
(* not zero.                                                               *)
(***************************************************************************)

ForceToInit ==
    /\ items = <<>>
    /\ cams = {}
    /\ self \in {SpeedCam_new(3, l, n, FALSE) :
                    l \in {0, 2, 5}, n \in {-2, -1, 1, 2, 4}}
    /\ other \in {CarAt(Car_new(0, 1, 10, 1, 0, 10), 2, v) : v \in -3 .. 6}
    /\ ret = <<>>
    /\ steps = 0
    /\ pc = "force_to"

\* speedcam.force_to(&car); both are borrowed, not changed
CallForceTo ==
    /\ pc = "force_to"
    /\ ret = <<>>
    /\ ret' = <<[cam |-> self, car |-> other,
                 force |-> SpeedCam_force_to(self, other)]>>
    /\ UNCHANGED <<items, cams, self, other, steps, pc>>

ForceToNext == CallForceTo

SpecForceTo == ForceToInit /\ [][ForceToNext]_vars

\* C6: force_to returns zero for a car slower than the limit and otherwise
\* the brake -2 / length * velocity^2, which is not positive for length > 0;
\* the car and the cam are as they were.
C6_ForceTo ==
    \A i \in 1 .. Len(ret) :
        LET v == other.vel
            f == ret[i].force
        IN  /\ v < self.speed_limit => f.num = 0 /\ f.den # 0
            /\ v >= self.speed_limit =>
                  /\ FracEq(f, Frac(-2 * v * v, self.length))
                  /\ self.length > 0 => FracSgn(f) <= 0
            /\ ret[i].cam = self
            /\ ret[i].car = other

C6_Witness ==
    /\ pc = "force_to"
    /\ Len(ret) = 1
    /\ other.vel = self.speed_limit
    /\ self.length > 0
    /\ FracSgn(ret[1].force) < 0

(***************************************************************************)
(* Car::new and SpeedCam::new called with every kind of argument.          *)
(***************************************************************************)

NewInit ==
    /\ items = <<>>
    /\ cams = {}
    /\ self = <<>>
    /\ other = <<>>
    /\ ret = <<>>
    /\ steps = 0
    /\ pc = "new"

\* Car::new(lane, size, max_speed, drift, behavior, own_max_speed) returns
\* Self: there is no error outcome
NewCar ==
    /\ pc = "new"
    /\ ret = <<>>
    /\ \E size \in {-1, 0, 1}, max_speed \in {-10, 0, 10, 50},
          own_max_speed \in {-10, 0, 10}, behavior \in {0, 1} :
          ret' = <<[type |-> "Car", outcome |-> "ok",
                    val |-> Car_new(0, size, max_speed, 1, behavior, own_max_speed)]>>
    /\ UNCHANGED <<items, cams, self, other, steps, pc>>

\* SpeedCam::new(pos, speed_limit, length, check_average) returns Self
NewSpeedCam ==
    /\ pc = "new"
    /\ ret = <<>>
    /\ \E p \in {0, 3}, speed_limit \in {-5, 0, 5}, length \in {-1, 0, 1, 2},
          check_average \in BOOLEAN :
          ret' = <<[type |-> "SpeedCam", outcome |-> "ok",
                    val |-> SpeedCam_new(p, speed_limit, length, check_average)]>>
    /\ UNCHANGED <<items, cams, self, other, steps, pc>>

NewNext == NewCar \/ NewSpeedCam

SpecNew == NewInit /\ [][NewNext]_vars

\* C4: construction rejects a non-positive size, speed or length, so no Car
\* with size, max_speed or own_max_speed <= 0 and no SpeedCam with
\* speed_limit or length <= 0 is ever constructed.
C4_Rejects ==
    \A i \in 1 .. Len(ret) :
        ret[i].outcome = "ok" =>
            IF ret[i].type = "Car"
            THEN /\ ret[i].val.size > 0
                 /\ ret[i].val.max_speed > 0
                 /\ ret[i].val.own_max_speed > 0
            ELSE /\ ret[i].val.speed_limit > 0
                 /\ ret[i].val.length > 0

(***************************************************************************)
(* Car::force_from called on two cars at distinct positions.  The car that *)
(* feels the force stands at 10, has a positive size and does not move     *)
(* backward; the other one is up to 10 behind or ahead.                    *)
(***************************************************************************)

ForceFromInit ==
    /\ items = <<>>
    /\ cams = {}
    /\ self \in {CarAt(Car_new(0, size, 10, 1, 0, 10), 10, v) :
                    size \in 1 .. 10, v \in 0 .. 2}
    /\ other \in {CarAt(Car_new(0, 1, 10, 1, 0, 10), p, 0) :
                    p \in (0 .. 20) \ {10}}
    /\ ret = <<>>
    /\ steps = 0
    /\ pc = "force_from"

\* cars[0].force_from(&cars[1])
CallForceFrom ==
    /\ pc = "force_from"
    /\ ret = <<>>
    /\ ret' = <<[force |-> Car_force_from(self, other)]>>
    /\ UNCHANGED <<items, cams, self, other, steps, pc>>

ForceFromNext == CallForceFrom

SpecForceFrom == ForceFromInit /\ [][ForceFromNext]_vars

\* t = safe_distance / r of the call, as numerator and denominator (> 0)
TNum == Car_safe_distance(self, self.pos < other.pos).num

TDen == Car_safe_distance(self, self.pos < other.pos).den * Abs(self.pos - other.pos)

\* the sign of 2 * t^6 - 1
TwoT6VsOne ==
    BigCmp(BigTimesPow(BigOfNat(2), Abs(TNum), 6), BigTimesPow(BigOfNat(1), TDen, 6))

\* the force pushes self away from other / pulls it toward other
Away(f) == IF self.pos < other.pos THEN f.sgn < 0 ELSE f.sgn > 0

Toward(f) == IF self.pos < other.pos THEN f.sgn > 0 ELSE f.sgn < 0

\* C7 as stated: for t > 1 the force pushes self away from other, and for
\* t < 1 it pulls self toward other.
C7_SignByOne ==
    \A i \in 1 .. Len(ret) :
        /\ TNum > TDen => Away(ret[i].force)
        /\ TNum < TDen => Toward(ret[i].force)

\* C7 as amended: for t > 0 the sign of the force is governed by 2 t^6
\* relative to 1: the force pushes self away from other whenever 2 t^6 > 1
\* (so for every t > 1, and also for 0.891 < t <= 1) and pulls it toward
\* other when 2 t^6 < 1.
C7_SignByRoot ==
    \A i \in 1 .. Len(ret) :
        /\ TNum > 0
        /\ TNum > TDen => Away(ret[i].force)
        /\ TwoT6VsOne > 0 => Away(ret[i].force)
        /\ TwoT6VsOne < 0 => Toward(ret[i].force)

\* size 9 at rest, the other car 10 ahead: t = 0.9 < 1, and the force still
\* pushes back
C7_Witness ==
    /\ pc = "force_from"
    /\ Len(ret) = 1
    /\ self.size = 9
    /\ self.vel = 0
    /\ other.pos = 20
    /\ TNum < TDen
    /\ Away(ret[1].force)

(***************************************************************************)
(* test_car_acceleration: a lone car at rest, stepped with dt = 0.1 under  *)
(* its drift force alone.  self carries a lower bound of the velocity and  *)
(* other an upper bound; the car's velocity lies between the two.  Gains:  *)
(* 0.1, 0.5, 1, 2, 5, 10; ceilings: 5 and 10.                              *)
(***************************************************************************)

\* timeiter.set_tmax(20) at dt = 0.1
StepsTo20 == 200

ExtraSteps == 20

DriftGains == {FP \div 10, FP \div 2, FP, 2 * FP, 5 * FP, 10 * FP}

DriftInit ==
    /\ items = <<>>
    /\ cams = {}
    /\ \E drift \in DriftGains, max_speed \in {5 * FP, 10 * FP} :
          /\ self = Car_new(0, FP, max_speed, drift, 0, max_speed)
          /\ other = Car_new(0, FP, max_speed, drift, 0, max_speed)
    /\ ret = <<>>
    /\ steps = 0
    /\ pc = "drift"

\* one turn of the loop: force = car.drift_force(); car.euler; car.renew_state
DriftStep ==
    /\ pc = "drift"
    /\ steps < StepsTo20 + ExtraSteps
    /\ self' = EulerLo(self)
    /\ other' = EulerHi(other)
    /\ steps' = steps + 1
    /\ UNCHANGED <<items, cams, ret, pc>>

DriftNext == DriftStep

SpecDrift == DriftInit /\ [][DriftNext]_vars

\* every velocity between the two bounds is within 1e-2 of max_speed
InBand ==
    /\ self.vel <= other.vel
    /\ Abs(self.max_speed - self.vel) <= FP \div 100
    /\ Abs(other.max_speed - other.vel) <= FP \div 100

\* some velocity between the two bounds is within 1e-2 of max_speed
MayBeInBand ==
    /\ self.vel <= self.max_speed + FP \div 100
    /\ other.vel >= other.max_speed - FP \div 100

\* C8 as stated: for any positive drift gain the velocity is within 1e-2 of
\* max_speed once the simulated time has reached 20, and stays there.  The
\* velocity lies between the two bounds, so it is in the band only if some
\* value between them is.
C8_AnyDrift == steps >= StepsTo20 => MayBeInBand

\* C8 as amended: for a drift gain between 1 and 10 and a max_speed of at
\* most 10 the velocity is within 1e-2 of max_speed once the simulated time
\* has reached 20, and stays there.
C8_DriftFromOne == (steps >= StepsTo20 /\ self.drift >= FP) => InBand

C8_Witness ==
    /\ pc = "drift"
    /\ steps = StepsTo20
    /\ self.drift = FP
    /\ self.max_speed = 10 * FP
    /\ self.vel > 0
    /\ InBand

(***************************************************************************)
(* The loop of test_speedcam, for any number of cars and cams.  The cars   *)
(* start where Car::new puts them, at 0, in front of the flags in items;   *)
(* the flags follow in the order of their positions.  The Euler step is    *)
(* the substrate's: here a car advances by any distance up to MaxAdvance,  *)
(* never past the car in front of it, and its velocity is that distance.   *)
(* The assertion of the test on the velocity at the exit flag is not part  *)
(* of the loop's effect and is left out.                                   *)
(***************************************************************************)

MaxCars == 2

MaxCams == 2

MaxPos == 5

MaxAdvance == 3

\* Car::new(0, 1, 10, 1, 0, 10) of test_speedcam: the ceiling of its own
OwnMaxSpeed == 10

DriveCars ==
    {Car_new(0, 1, m, 1, b, OwnMaxSpeed) : m \in {OwnMaxSpeed, 50}, b \in {0, 1}}

DriveCams == {SpeedCam_new(p, 5, n, FALSE) : p \in {2, 4}, n \in {1, 2}}

\* the flags of a set of cams
FlagsOfCams(cs) ==
    UNION {{SpeedCam_flags(cm)[1], SpeedCam_flags(cm)[2]} : cm \in cs}

\* items is in the order of the positions
Sorted(its) ==
    \A i, j \in 1 .. Len(its) :
        i < j => TrafficItem_pos(its[i]) <= TrafficItem_pos(its[j])

\* the arrangements of the flags fs in the order of their positions
SortedFlags(fs) ==
    {s \in [1 .. Cardinality(fs) -> {TrafficItem_Flag(f) : f \in fs}] :
        /\ \A i, j \in 1 .. Cardinality(fs) : i # j => s[i] # s[j]
        /\ Sorted(s)}

\* the cars of items, in the order of items, and the flags likewise
CarsOf(its) == SelectSeq(its, LAMBDA it : it.tag = "Car")

FlagsOf(its) == SelectSeq(its, LAMBDA it : it.tag = "Flag")

\* the second loop of a step, from index j on (the source's i = j - 1):
\* a flag acts on the car right before it that has passed it, and the two
\* change places
RECURSIVE Pass(_, _)
Pass(its, j) ==
    IF j > Len(its)
    THEN its
    ELSE IF /\ its[j].tag = "Flag"
            /\ its[j - 1].tag = "Car"
            /\ SpeedCamFlag_pos(its[j].val) < its[j - 1].val.pos
         THEN Pass([its EXCEPT
                       ![j] = TrafficItem_Car(
                                  SpeedCamFlag_set_max_speed(its[j].val, its[j - 1].val)),
                       ![j - 1] = TrafficItem_Flag(its[j].val)],
                   j + 1)
         ELSE Pass(its, j + 1)

\* the first loop of a step: every car is integrated, a flag is left alone
Integrate(its, adv) ==
    [i \in 1 .. Len(its) |->
        IF its[i].tag = "Car"
        THEN TrafficItem_Car(CarAt(its[i].val, its[i].val.pos + adv[i], adv[i]))
        ELSE its[i]]

DriveInit ==
    /\ \E cs \in SUBSET DriveCams, n \in 1 .. MaxCars :
          /\ Cardinality(cs) \in 1 .. MaxCams
          /\ cams = cs
          /\ \E cars \in [1 .. n -> {TrafficItem_Car(c) : c \in DriveCars}],
                flags \in SortedFlags(FlagsOfCams(cs)) :
                items = cars \o flags
    /\ self = <<>>
    /\ other = <<>>
    /\ ret = <<>>
    /\ steps = 0
    /\ pc = "drive"

\* one increment of the time iterator: both loops
DriveStep ==
    /\ pc = "drive"
    /\ \E adv \in [{i \in 1 .. Len(items) : items[i].tag = "Car"} -> 0 .. MaxAdvance] :
          LET moved == Integrate(items, adv)
          IN  /\ \A i \in 1 .. Len(items) : TrafficItem_pos(moved[i]) <= MaxPos
              /\ Sorted(CarsOf(moved))
              /\ items' = Pass(moved, 2)
    /\ UNCHANGED <<cams, self, other, ret, steps, pc>>

DriveNext == DriveStep

Spec == DriveInit /\ [][DriveNext]_vars

\* car c is past the entry flag of some cam and not past that cam's exit flag
InZone(c) ==
    \E cm \in cams :
        /\ SpeedCam_flags(cm)[1].pos < c.pos
        /\ ~(SpeedCam_flags(cm)[2].pos < c.pos)

\* what flag f makes of the max_speed of car c
Enforced(f, c) ==
    IF f.status THEN (1 + c.behavior) * f.cam.speed_limit ELSE c.own_max_speed

\* C1: in every step, for every car and every cam, the car's max_speed is
\* set to (1 + behavior) * speed_limit exactly when its position first
\* exceeds the entry flag's, and restored to own_max_speed exactly when it
\* first exceeds the exit flag's: a car that passes no flag in the step keeps
\* its max_speed, and a car that passes one flag has what that flag enforces.
C1_ExactStep ==
    [][\A k \in 1 .. Len(CarsOf(items)) :
          LET c == CarsOf(items)[k].val
              d == CarsOf(items')[k].val
              crossed == {f \in FlagsOfCams(cams) : c.pos <= f.pos /\ f.pos < d.pos}
          IN  /\ crossed = {} => d.max_speed = c.max_speed
              /\ \A f \in crossed : crossed = {f} => d.max_speed = Enforced(f, c)]_vars

\* C3: every car's own_max_speed is the one it was constructed with, and
\* its max_speed differs from it only while the car is inside a zone.
C3_OnlyInZone ==
    \A k \in 1 .. Len(CarsOf(items)) :
        LET c == CarsOf(items)[k].val
        IN  /\ c.own_max_speed = OwnMaxSpeed
            /\ c.max_speed # c.own_max_speed => InZone(c)

\* C10: after the transition pass of every step items holds the flags of
\* the cams, each once, and is in the order of the positions: no car that
\* has passed a flag is left before it.
C10_SortedAfterPass ==
    /\ Sorted(items)
    /\ Len(FlagsOf(items)) = 2 * Cardinality(cams)
    /\ {it.val : it \in {items[i] : i \in 1 .. Len(items)} \ {items[i] : i \in {j \in 1 .. Len(items) : items[j].tag = "Car"}}}
          = FlagsOfCams(cams)

=============================================================================
